---- MODULE Spec2Model ----
(***************************************************************************)
(* Task queue and scheduler (TaskManager) of vid-kit-simple.                *)
(*                                                                         *)
(* The manager's fields are the variables.  Every public operation of      *)
(* src-tauri/src/state/task_manager/mod.rs is a pure operator over a       *)
(* record of the manager's fields (so that the operations that call other  *)
(* operations compose as in the code), and one action applies it.  The     *)
(* execution contexts spawned by start_task are the elements of `ctxs`.     *)
(***************************************************************************)
EXTENDS Integers, Sequences, FiniteSets, TLC

VARIABLES
    tasks,                 \* TaskManager.tasks: Vec<Task>
    queue,                 \* TaskManager.queue: VecDeque<String>
    max_concurrent_tasks,  \* TaskManager.max_concurrent_tasks
    is_queue_paused,       \* TaskManager.is_queue_paused
    semaphore,             \* TaskManager.semaphore: the current Arc<Semaphore>
    ctxs,                  \* execution contexts spawned by start_task, still alive
    store,                 \* the tasks.json store: the four persisted keys
    next_id,               \* number of ids handed out so far (Uuid::new_v4 is fresh)
    sem_gen,               \* number of Semaphore objects constructed so far
    listener,              \* whether anything listens to the start-task events
    signals,               \* start-task events delivered to the listener, not yet handled
    calls,                 \* run_task commands the webview has invoked, in order
    threads,               \* the lock scopes each thread is in: its operation,
                           \* its position in it and the guards it holds
    transitions,           \* the status updates the last step made, in order
    last_op,               \* the operation of the last step and its arguments
    result,                \* what the operation of the last step returned
    emitted                \* the events the last step emitted, in order

vars == << tasks, queue, max_concurrent_tasks, is_queue_paused, semaphore, ctxs,
           store, next_id, sem_gen, listener, signals, calls, threads, transitions,
           last_op, result, emitted >>

(***************************************************************************)
(* Bounds of the model.                                                    *)
(***************************************************************************)
MaxTasks == 2          \* create_task is called at most this many times
MaxEngineTasks == 3    \* the same, where the execution contexts are followed
MaxAttempts == 1       \* a task is started at most this many times
MaxOrderLen == 2       \* longest new_order handed to reorder_tasks
MaxLimit == 3          \* largest value handed to set_max_concurrent_tasks
MaxSemaphores == 1     \* set_max_concurrent_tasks is called at most this many times
MaxCalls == 2          \* run_task commands invoked before they are executed
MaxWorkers == 1        \* runtime threads that run execution contexts
MaxLoop == 1           \* tasks a queue command or an engine run iterates over

\* TaskManager::new(2) in lib.rs
DefaultMaxConcurrentTasks == 2

Ids == 1..MaxTasks

\* The threads: the main thread, which runs the commands (none of them is
\* async), and the runtime's worker threads, which run the spawned contexts
MainThread == 0
Workers == 1..MaxWorkers
Threads == {MainThread} \cup Workers

\* a thread that is in no operation
Idle == [op |-> "idle", prog |-> << >>, pc |-> 1, held |-> {}]
EngineIds == 1..MaxEngineTasks

\* Option::None
None == "None"

\* TaskStatus
Pending == "Pending"
Running == "Running"
Paused == "Paused"
Completed == "Completed"
Failed == "Failed"
Canceled == "Canceled"
TaskStatus == {Pending, Running, Paused, Completed, Failed, Canceled}

\* TaskError / TaskResult
Ok == "Ok"
TaskNotFound == "TaskNotFound"
InvalidStatus == "InvalidStatus"
StoreSaveError == "StoreSaveError"
StoreLoadError == "StoreLoadError"

\* The message of an engine failure (AppError rendered by to_string)
EngineError == "engine error"

\* Progress values the engine reports to the callback
ProgressValues == {50}

(***************************************************************************)
(* Sequence helpers (Vec / VecDeque operations used by the code).          *)
(***************************************************************************)
Range(s) == {s[i] : i \in DOMAIN s}

\* iter().position(|x| x = v): index of the first occurrence, 0 when absent
Position(s, v) ==
    IF v \in Range(s) THEN CHOOSE i \in DOMAIN s : s[i] = v /\ \A j \in 1..(i-1) : s[j] # v
    ELSE 0

\* VecDeque::remove(pos)
RemoveAt(s, pos) == [i \in 1..(Len(s) - 1) |-> IF i < pos THEN s[i] ELSE s[i + 1]]

\* all sequences over S of length at most n
SeqsUpTo(S, n) == UNION {[1..k -> S] : k \in 0..n}

(***************************************************************************)
(* Task                                                                    *)
(***************************************************************************)
\* The arguments the create_task command accepts: task_type is one of the
\* types the command lets through, config is a map (a set of key/value pairs)
CreateArgs ==
    { [ input_path |-> "a.mp4", output_path |-> "a.mkv", task_type |-> "convert",
        config |-> {} ],
      [ input_path |-> "b.mp4", output_path |-> "b.mkv", task_type |-> "split",
        config |-> { << "crf", "23" >> } ] }

\* the arguments of the commands whose paths and configuration are not looked at
DefaultArgs ==
    [ input_path |-> "a.mp4", output_path |-> "a.mkv", task_type |-> "convert",
      config |-> {} ]

\* The Task built by create_task.  created_at is the ordinal of the creation;
\* started_at and completed_at say whether a timestamp is set.
NewTask(id, args) ==
    [ id |-> id, input_path |-> args.input_path, output_path |-> args.output_path,
      status |-> Pending, progress |-> 0, error |-> None,
      attempts |-> 0, created_at |-> id, started_at |-> FALSE,
      completed_at |-> FALSE, task_type |-> args.task_type, config |-> args.config ]

\* tasks.iter().any(|t| t.id == id)
HasTask(T, id) == \E i \in DOMAIN T : T[i].id = id

\* tasks.iter().find(|t| t.id == id): the index of the first task with this id
TaskIndex(T, id) == CHOOSE i \in DOMAIN T : T[i].id = id /\ \A j \in 1..(i-1) : T[j].id # id

\* TaskManager::get_task, once the id is known to exist
get_task(T, id) == T[TaskIndex(T, id)]

\* TaskManager::update_task: update_fn applied to the first task with this id
update_task(T, id, update_fn(_)) ==
    [i \in DOMAIN T |-> IF i = TaskIndex(T, id) THEN update_fn(T[i]) ELSE T[i]]

\* A call self.update_task(id, update_fn) of an operation: the task list is
\* updated and the status written is recorded
Transition(m, id, update_fn(_)) ==
    [m EXCEPT !.tasks = update_task(@, id, update_fn),
              !.tr = Append(@, [ id |-> id, from |-> get_task(m.tasks, id).status,
                                 to |-> update_fn(get_task(m.tasks, id)).status ])]

\* tasks.iter().filter(|t| t.status == Running).count()
running_count(T) == Cardinality({i \in DOMAIN T : T[i].status = Running})

\* ids of the tasks whose status is in S, in task-list order
RECURSIVE IdsWithStatus(_, _)
IdsWithStatus(T, S) ==
    IF T = << >> THEN << >>
    ELSE (IF Head(T).status \in S THEN << Head(T).id >> ELSE << >>)
         \o IdsWithStatus(Tail(T), S)

(***************************************************************************)
(* Persistence: save_state writes the four keys one after the other and     *)
(* returns at the first store_helper::set_value that fails.  An outcome     *)
(* [n, ok] says how many keys reached the store and whether every           *)
(* set_value returned Ok (set_value sets the key and then saves the file,   *)
(* so a key may be set by a call that fails).                               *)
(***************************************************************************)
SaveOk == [n |-> 4, ok |-> TRUE]
SaveOutcomes == {SaveOk} \cup {[n |-> k, ok |-> FALSE] : k \in 0..4}

\* the store before the first write: no key has a value.  A key holds << >>
\* when it is absent and << v >> when the value v was written to it.
EmptyStore ==
    [ tasks |-> << >>, queue |-> << >>, max_concurrent_tasks |-> << >>,
      is_queue_paused |-> << >> ]

\* The manager's fields as one record, with the events emitted so far by the
\* running operation (ev), the status updates it has made (tr) and the value
\* it returns (res).
Manager ==
    [ tasks |-> tasks, queue |-> queue, max |-> max_concurrent_tasks,
      paused |-> is_queue_paused, sem |-> semaphore, ctxs |-> ctxs,
      store |-> store, gen |-> sem_gen, ev |-> << >>, res |-> Ok, tr |-> << >> ]

\* emit_event
emit_event(m, e) == [m EXCEPT !.ev = Append(@, e)]

\* return Ok(..) / return Err(..)
Return(m, r) == [m EXCEPT !.res = r]

\* serde_json::to_value of a Task (derive(Serialize)): an object with one
\* member per field; the status is written as the name of its variant and an
\* Option as null (<< >>) or as its value (<< v >>)
task_to_value(t) ==
    [ id |-> t.id, input_path |-> t.input_path, output_path |-> t.output_path,
      status |-> t.status, progress |-> t.progress,
      error |-> IF t.error = None THEN << >> ELSE << t.error >>,
      attempts |-> t.attempts, created_at |-> t.created_at,
      started_at |-> IF t.started_at THEN << TRUE >> ELSE << >>,
      completed_at |-> IF t.completed_at THEN << TRUE >> ELSE << >>,
      task_type |-> t.task_type, config |-> t.config ]

\* serde_json::to_value of the Vec<Task>
to_value(T) == [i \in DOMAIN T |-> task_to_value(T[i])]

\* whether serde_json::from_value accepts the object as a Task: the status
\* names a variant of TaskStatus
deserializable(j) == j.status \in TaskStatus

\* serde_json::from_value of one Task (derive(Deserialize))
task_from_value(j) ==
    [ id |-> j.id, input_path |-> j.input_path, output_path |-> j.output_path,
      status |-> j.status, progress |-> j.progress,
      error |-> IF j.error = << >> THEN None ELSE j.error[1],
      attempts |-> j.attempts, created_at |-> j.created_at,
      started_at |-> j.started_at # << >>,
      completed_at |-> j.completed_at # << >>,
      task_type |-> j.task_type, config |-> j.config ]

\* serde_json::from_value of the Vec<Task>
from_value(J) == [i \in DOMAIN J |-> task_from_value(J[i])]

\* TaskManager::save_state
save_state(m, sv) ==
    [m EXCEPT
        !.store = [ tasks |-> IF sv.n >= 1 THEN << to_value(m.tasks) >> ELSE @.tasks,
                    queue |-> IF sv.n >= 2 THEN << m.queue >> ELSE @.queue,
                    max_concurrent_tasks |-> IF sv.n >= 3 THEN << m.max >>
                                             ELSE @.max_concurrent_tasks,
                    is_queue_paused |-> IF sv.n >= 4 THEN << m.paused >>
                                        ELSE @.is_queue_paused ],
        !.res = IF sv.ok THEN Ok ELSE StoreSaveError]

\* store_helper::store_exists: the file is there once a key was written
store_exists(st) == st # EmptyStore

\* a load_state that does not read the queue key
load_state_without_queue(m) ==
    IF ~store_exists(m.store) THEN Return(m, Ok)
    ELSE [m EXCEPT !.tasks = IF m.store.tasks # << >>
                             THEN from_value(m.store.tasks[1]) ELSE @,
                   !.res = Ok]

\* TaskManager::load_state: every key that has a value replaces the field,
\* a key without a value leaves it; the limit also rebuilds the semaphore
load_state(m) ==
    IF ~store_exists(m.store) THEN Return(m, Ok)
    ELSE IF m.store.tasks # << >>
            /\ \E i \in DOMAIN m.store.tasks[1] : ~deserializable(m.store.tasks[1][i])
         THEN Return(m, StoreLoadError)
    ELSE LET has_max == m.store.max_concurrent_tasks # << >>
         IN  [m EXCEPT
                !.tasks = IF m.store.tasks # << >>
                          THEN from_value(m.store.tasks[1]) ELSE @,
                !.queue = IF m.store.queue # << >> THEN m.store.queue[1] ELSE @,
                !.max = IF has_max THEN m.store.max_concurrent_tasks[1] ELSE @,
                !.sem = IF has_max
                        THEN [gen |-> m.gen + 1, cap |-> m.store.max_concurrent_tasks[1]]
                        ELSE @,
                !.gen = IF has_max THEN @ + 1 ELSE @,
                !.paused = IF m.store.is_queue_paused # << >>
                           THEN m.store.is_queue_paused[1] ELSE @,
                !.res = Ok]

\* TaskManager::new(max_concurrent_tasks) in a process that finds the store st
\* and has handed out gen semaphores so far
new(max, st) ==
    [ tasks |-> << >>, queue |-> << >>, max |-> max, paused |-> FALSE,
      sem |-> [gen |-> 0, cap |-> max], ctxs |-> {}, store |-> st,
      gen |-> 0, ev |-> << >>, res |-> Ok, tr |-> << >> ]

(***************************************************************************)
(* TaskManager operations                                                  *)
(***************************************************************************)
\* a create_task that puts the id at the head of the queue
create_task_at_head(m, id, args) ==
    Return([m EXCEPT !.tasks = Append(@, NewTask(id, args)), !.queue = << id >> \o @], Ok)

\* TaskManager::create_task with the fresh uuid `id`
create_task(m, id, args) ==
    Return([m EXCEPT !.tasks = Append(@, NewTask(id, args)), !.queue = Append(@, id)], Ok)

\* the closure start_task hands to update_task
StartUpdate(t) ==
    [t EXCEPT !.status = Running, !.started_at = TRUE, !.attempts = @ + 1]

\* the execution context start_task spawns: it holds the clone of the task
\* taken before the update and the semaphore that was current at the spawn
SpawnedContext(m, task_clone) ==
    [ task |-> task_clone.id, attempt |-> task_clone.attempts + 1,
      progress |-> task_clone.progress, sem |-> m.sem, pc |-> "acquire" ]

\* a start_task guard that lets every status through
StartableAnyStatus(status) == status \in TaskStatus

\* the status check of start_task
Startable(status) == status = Pending

\* TaskManager::start_task from its update_task on: the task is updated, the
\* state saved, the event emitted and the context spawned with the clone
\* get_task returned
start_task_update(m, id, task_clone, sv) ==
    IF ~HasTask(m.tasks, id) THEN Return(m, TaskNotFound)
    ELSE
        LET m1 == Transition(m, id, StartUpdate)
            m2 == save_state(m1, sv)
        IN  IF m2.res # Ok THEN m2
            ELSE Return([emit_event(m2, << "task-started", id >>)
                            EXCEPT !.ctxs = @ \cup {SpawnedContext(m, task_clone)}], Ok)

\* TaskManager::start_task
start_task(m, id, sv) ==
    IF ~HasTask(m.tasks, id) THEN Return(m, TaskNotFound)
    ELSE IF ~Startable(get_task(m.tasks, id).status) THEN Return(m, InvalidStatus)
    ELSE start_task_update(m, id, get_task(m.tasks, id), sv)

\* TaskManager::process_next_tasks: the ids it emits a start-task event for
RECURSIVE PendingInQueueOrder(_, _)
PendingInQueueOrder(T, q) ==
    IF q = << >> THEN << >>
    ELSE (IF HasTask(T, Head(q)) /\ get_task(T, Head(q)).status = Pending
          THEN << Head(q) >> ELSE << >>) \o PendingInQueueOrder(T, Tail(q))

available_slots(m) ==
    IF m.max >= running_count(m.tasks) THEN m.max - running_count(m.tasks) ELSE 0

\* a selection that takes the Pending tasks in the order of the Task list
NextToStartInListOrder(m) ==
    IF m.paused \/ available_slots(m) = 0 THEN << >>
    ELSE LET pending_tasks == IdsWithStatus(m.tasks, {Pending})
         IN  SubSeq(pending_tasks, 1,
                    IF Len(pending_tasks) < available_slots(m)
                    THEN Len(pending_tasks) ELSE available_slots(m))

NextToStart(m) ==
    IF m.paused \/ available_slots(m) = 0 THEN << >>
    ELSE LET pending_tasks == PendingInQueueOrder(m.tasks, m.queue)
         IN  SubSeq(pending_tasks, 1,
                    IF Len(pending_tasks) < available_slots(m)
                    THEN Len(pending_tasks) ELSE available_slots(m))

process_next_tasks(m) ==
    Return([m EXCEPT !.ev = @ \o [i \in DOMAIN NextToStart(m) |->
                                     << "start-task", NextToStart(m)[i] >>]], Ok)

\* TaskManager::pause_task
PauseUpdate(t) == [t EXCEPT !.status = Paused]

pause_task(m, id, sv) ==
    IF ~HasTask(m.tasks, id) THEN Return(m, TaskNotFound)
    ELSE IF get_task(m.tasks, id).status # Running THEN Return(m, InvalidStatus)
    ELSE
        LET m1 == Transition(m, id, PauseUpdate)
            m2 == save_state(m1, sv)
        IN  IF m2.res # Ok THEN m2
            ELSE Return(emit_event(m2, << "task-paused", id >>), Ok)

\* TaskManager::update_task_progress: the progress is written as it is given
update_task_progress(m, id, progress, sv) ==
    IF ~HasTask(m.tasks, id) THEN Return(m, TaskNotFound)
    ELSE save_state([m EXCEPT !.tasks[TaskIndex(m.tasks, id)].progress = progress], sv)

\* TaskManager::resume_task (the pause_condvar set is never inserted into, so
\* removing the id from it changes nothing); ResumeToPending is an update that
\* would put the task back to Pending instead
ResumeToPending(t) == [t EXCEPT !.status = Pending]

ResumeUpdate(t) == [t EXCEPT !.status = Running]

resume_task(m, id, sv) ==
    IF ~HasTask(m.tasks, id) THEN Return(m, TaskNotFound)
    ELSE IF get_task(m.tasks, id).status # Paused THEN Return(m, InvalidStatus)
    ELSE
        LET m1 == Transition(m, id, ResumeUpdate)
            m2 == save_state(m1, sv)
        IN  IF m2.res # Ok THEN m2
            ELSE Return(emit_event(m2, << "task-resumed", id >>), Ok)

\* TaskManager::cancel_task
CancelUpdate(t) == [t EXCEPT !.status = Canceled, !.completed_at = TRUE]

cancel_task(m, id, sv) ==
    IF ~HasTask(m.tasks, id) THEN Return(m, TaskNotFound)
    ELSE IF get_task(m.tasks, id).status \notin {Running, Paused, Pending}
         THEN Return(m, InvalidStatus)
    ELSE
        LET m1 == Transition(m, id, CancelUpdate)
            m2 == save_state(m1, sv)
        IN  IF m2.res # Ok THEN m2
            ELSE LET m3 == emit_event(m2, << "task-canceled", id >>)
                     pos == Position(m3.queue, id)
                 IN  Return([m3 EXCEPT !.queue = IF pos # 0 THEN RemoveAt(@, pos) ELSE @],
                            Ok)

\* a retry update that leaves completed_at as it is
RetryUpdateKeepingCompletedAt(t) ==
    [t EXCEPT !.status = Pending, !.progress = 0, !.error = None]

\* a retry update that also resets attempts
RetryUpdateResettingAttempts(t) ==
    [t EXCEPT !.status = Pending, !.progress = 0, !.error = None,
              !.completed_at = FALSE, !.attempts = 0]

\* a retry update that also takes the output for the input
RetryUpdateSwappingPaths(t) ==
    [t EXCEPT !.status = Pending, !.progress = 0, !.error = None,
              !.completed_at = FALSE, !.input_path = t.output_path]

\* TaskManager::retry_task
RetryUpdate(t) ==
    [t EXCEPT !.status = Pending, !.progress = 0, !.error = None,
              !.completed_at = FALSE]

\* a retry_task guard that also lets a Running task through
RetryableOrRunning(status) == status \in {Failed, Canceled, Running}

\* the status check of retry_task
Retryable(status) == status \in {Failed, Canceled}

\* a slot test that also passes when the running count equals the limit
SlotFreeOrFull(m) == running_count(m.tasks) <= m.max

\* the slot test of retry_task: running_count < max_concurrent_tasks
SlotFree(m) == running_count(m.tasks) < m.max

retry_task(m, id, sv) ==
    IF ~HasTask(m.tasks, id) THEN Return(m, TaskNotFound)
    ELSE IF ~Retryable(get_task(m.tasks, id).status) THEN Return(m, InvalidStatus)
    ELSE
        LET m1 == Transition(m, id, RetryUpdate)
            m2 == save_state(m1, sv)
        IN  IF m2.res # Ok THEN m2
            ELSE LET m3 == emit_event(m2, << "task-retried", id >>)
                     m4 == [m3 EXCEPT !.queue = IF id \in Range(@) THEN @
                                                ELSE Append(@, id)]
                 IN  IF ~m4.paused /\ SlotFree(m4)
                     THEN start_task(m4, id, sv)
                     ELSE Return(m4, Ok)

\* TaskManager::remove_task
RECURSIVE WithoutId(_, _)
WithoutId(T, id) ==
    IF T = << >> THEN << >>
    ELSE (IF Head(T).id # id THEN << Head(T) >> ELSE << >>) \o WithoutId(Tail(T), id)

\* a removal from the queue that takes out the first occurrence only
WithoutFirst(q, id) ==
    IF Position(q, id) # 0 THEN RemoveAt(q, Position(q, id)) ELSE q

RECURSIVE Without(_, _)
Without(q, id) ==
    IF q = << >> THEN << >>
    ELSE (IF Head(q) # id THEN << Head(q) >> ELSE << >>) \o Without(Tail(q), id)

\* remove_task after its status check: the two retain calls, save_state and
\* the event
remove_task_update(m, id, sv) ==
    LET m1 == [m EXCEPT !.tasks = WithoutId(@, id), !.queue = Without(@, id)]
        m2 == save_state(m1, sv)
    IN  IF m2.res # Ok THEN m2
        ELSE Return(emit_event(m2, << "task-removed", id >>), Ok)

remove_task(m, id, sv) ==
    IF ~HasTask(m.tasks, id) THEN Return(m, TaskNotFound)
    ELSE IF get_task(m.tasks, id).status \in {Running, Paused}
         THEN Return(m, InvalidStatus)
    ELSE remove_task_update(m, id, sv)

\* `for id in ids { let _ = op(id) }`: the operations that cascade over the ids
\* collected beforehand; the result of each call is dropped
RECURSIVE ForEachRemove(_, _, _)
ForEachRemove(m, ids, sv) ==
    IF ids = << >> THEN m
    ELSE ForEachRemove(remove_task(m, Head(ids), sv), Tail(ids), sv)

RECURSIVE ForEachPause(_, _, _)
ForEachPause(m, ids, sv) ==
    IF ids = << >> THEN m
    ELSE ForEachPause(pause_task(m, Head(ids), sv), Tail(ids), sv)

RECURSIVE ForEachResume(_, _, _)
ForEachResume(m, ids, sv) ==
    IF ids = << >> THEN m
    ELSE ForEachResume(resume_task(m, Head(ids), sv), Tail(ids), sv)

RECURSIVE ForEachCancel(_, _, _)
ForEachCancel(m, ids, sv) ==
    IF ids = << >> THEN m
    ELSE ForEachCancel(cancel_task(m, Head(ids), sv), Tail(ids), sv)

\* a clear_completed_tasks that collects the Completed tasks only
clear_completed_only(m, sv) ==
    Return(ForEachRemove(m, IdsWithStatus(m.tasks, {Completed}), sv), Ok)

\* TaskManager::clear_completed_tasks
clear_completed_tasks(m, sv) ==
    Return(ForEachRemove(m, IdsWithStatus(m.tasks, {Completed, Canceled}), sv), Ok)

\* a reorder_tasks that fills the queue while it validates, and so leaves the
\* known ids of new_order in the queue when it fails
reorder_tasks_partial(m, new_order, sv) ==
    IF \E i \in DOMAIN new_order : ~HasTask(m.tasks, new_order[i])
    THEN Return([m EXCEPT !.queue = SelectSeq(new_order,
                                              LAMBDA id : HasTask(m.tasks, id))],
                TaskNotFound)
    ELSE
        LET m1 == [m EXCEPT !.queue = new_order]
            m2 == save_state(m1, sv)
        IN  IF m2.res # Ok THEN m2
            ELSE Return(emit_event(m2, << "queue-reordered" >>), Ok)

\* a reorder_tasks that does not clear the queue before it pushes new_order
reorder_tasks_appending(m, new_order, sv) ==
    IF \E i \in DOMAIN new_order : ~HasTask(m.tasks, new_order[i])
    THEN Return(m, TaskNotFound)
    ELSE
        LET m1 == [m EXCEPT !.queue = @ \o new_order]
            m2 == save_state(m1, sv)
        IN  IF m2.res # Ok THEN m2
            ELSE Return(emit_event(m2, << "queue-reordered" >>), Ok)

\* TaskManager::reorder_tasks
reorder_tasks(m, new_order, sv) ==
    IF \E i \in DOMAIN new_order : ~HasTask(m.tasks, new_order[i])
    THEN Return(m, TaskNotFound)
    ELSE
        LET m1 == [m EXCEPT !.queue = new_order]
            m2 == save_state(m1, sv)
        IN  IF m2.res # Ok THEN m2
            ELSE Return(emit_event(m2, << "queue-reordered" >>), Ok)

\* TaskManager::set_max_concurrent_tasks
set_max_concurrent_tasks(m, max, sv) ==
    LET m1 == [m EXCEPT !.max = max, !.sem = [gen |-> m.gen + 1, cap |-> max],
                        !.gen = @ + 1]
        m2 == save_state(m1, sv)
    IN  IF m2.res # Ok THEN m2
        ELSE Return(emit_event(m2, << "max-concurrent-tasks-changed", max >>), Ok)

\* TaskManager::pause_queue
pause_queue(m, sv) ==
    LET m1 == [m EXCEPT !.paused = TRUE]
        m2 == ForEachPause(m1, IdsWithStatus(m1.tasks, {Running}), sv)
        m3 == emit_event(m2, << "queue-paused" >>)
    IN  save_state(m3, sv)

\* a resume_queue that does not call process_next_tasks
resume_queue_no_admission(m, sv) ==
    LET m1 == [m EXCEPT !.paused = FALSE]
        m2 == ForEachResume(m1, IdsWithStatus(m1.tasks, {Paused}), sv)
        m4 == emit_event(m2, << "queue-resumed" >>)
    IN  save_state(m4, sv)

\* TaskManager::resume_queue
resume_queue(m, sv) ==
    LET m1 == [m EXCEPT !.paused = FALSE]
        m2 == ForEachResume(m1, IdsWithStatus(m1.tasks, {Paused}), sv)
        m3 == process_next_tasks(m2)
        m4 == emit_event(m3, << "queue-resumed" >>)
    IN  save_state(m4, sv)

\* a cancel_queue that collects the Pending and Running tasks only
cancel_queue_skipping_paused(m, sv) ==
    LET m1 == ForEachCancel(m, IdsWithStatus(m.tasks, {Pending, Running}), sv)
        m2 == [m1 EXCEPT !.queue = << >>]
        m3 == emit_event(m2, << "queue-canceled" >>)
    IN  save_state(m3, sv)

\* TaskManager::cancel_queue
cancel_queue(m, sv) ==
    LET m1 == ForEachCancel(m, IdsWithStatus(m.tasks, {Pending, Running, Paused}), sv)
        m2 == [m1 EXCEPT !.queue = << >>]
        m3 == emit_event(m2, << "queue-canceled" >>)
    IN  save_state(m3, sv)

(***************************************************************************)
(* The execution context spawned by start_task.                            *)
(***************************************************************************)
\* permits of a semaphore held by the contexts inside the engine
Held(C, sem) == Cardinality({c \in C : c.sem = sem /\ c.pc = "engine"})

\* a progress callback that stops the engine for a Canceled task only
progress_callback_unless_canceled(m, id, progress) ==
    [ ev |-> << << "task-progress", id, progress >> >>,
      continue |-> /\ HasTask(m.tasks, id)
                   /\ get_task(m.tasks, id).status # Canceled ]

\* the progress callback process_task hands to the engine: the events it emits
\* and the value it returns
progress_callback(m, id, progress) ==
    [ ev |-> << << "task-progress", id, progress >> >>,
      continue |-> /\ HasTask(m.tasks, id)
                   /\ get_task(m.tasks, id).status \notin {Canceled, Paused} ]

\* an update_task_status that also writes the status into the task list
update_task_status_stored(m, id, status, progress, error) ==
    IF ~HasTask(m.tasks, id) THEN m
    ELSE [m EXCEPT !.tasks[TaskIndex(m.tasks, id)].status = status]

\* update_task_status: builds the updated copy of the current task and emits
\* it in a task-updated event
update_task_status(m, id, status, progress, error) ==
    IF ~HasTask(m.tasks, id) THEN m
    ELSE LET current_task == get_task(m.tasks, id)
             updated_task ==
                 [current_task EXCEPT
                     !.status = status, !.progress = progress,
                     !.error = IF error # None THEN error ELSE @,
                     !.completed_at = IF status \in {Completed, Failed, Canceled}
                                      THEN TRUE ELSE @]
         IN  emit_event(m, << "task-updated", updated_task >>)

\* the rest of the spawned block once process_task has returned `outcome`
AfterProcessing(m, c, outcome) ==
    LET m1 == IF outcome = Ok
              THEN emit_event(update_task_status(m, c.task, Completed, 100, None),
                              << "task-completed", c.task >>)
              ELSE emit_event(update_task_status(m, c.task, Failed, c.progress,
                                                 EngineError),
                              << "task-failed", c.task, EngineError >>)
        m2 == process_next_tasks(m1)
    IN  [m2 EXCEPT !.ctxs = @ \ {c}]

(***************************************************************************)
(* Actions: one per command of commands/task_commands.rs and one per step   *)
(* of an execution context.  The commands are synchronous tauri commands:   *)
(* they run one at a time, so each is one step.  An execution context       *)
(* runs on the tokio runtime beside them; it only reads the manager.        *)
(***************************************************************************)
Op(name, id, order, n) == [op |-> name, id |-> id, order |-> order, n |-> n]

\* ids of the start-task events among the events ev
StartSignals(ev) == {ev[i][2] : i \in {j \in DOMAIN ev : ev[j][1] = "start-task"}}

\* The manager after an operation that leaves it as m
ApplyManager(outcome, op) ==
    \E m \in {outcome} :
    /\ tasks' = m.tasks
    /\ queue' = m.queue
    /\ max_concurrent_tasks' = m.max
    /\ is_queue_paused' = m.paused
    /\ semaphore' = m.sem
    /\ ctxs' = m.ctxs
    /\ store' = m.store
    /\ sem_gen' = m.gen
    /\ transitions' = m.tr
    /\ last_op' = op
    /\ result' = m.res
    /\ emitted' = m.ev
    /\ UNCHANGED listener

\* The state after an operation that leaves the manager as m
Apply(outcome, op) == ApplyManager(outcome, op) /\ UNCHANGED << calls, threads >>

\* an emitted start-task event reaches the listener, when there is one
Deliver(m) ==
    signals' = IF listener THEN signals \cup StartSignals(m.ev) ELSE signals

\* The operation leaves no task started more often than the bound allows
AttemptsBounded(m) ==
    \A i \in DOMAIN m.tasks : m.tasks[i].attempts <= MaxAttempts

CreateTask(limit) ==
    /\ next_id < limit
    /\ next_id' = next_id + 1
    /\ Apply(create_task(Manager, next_id + 1, DefaultArgs),
             Op("create_task", next_id + 1, << >>, 0))
    /\ UNCHANGED signals

\* the create_task command with the arguments args
CreateTaskWith(limit, args) ==
    /\ next_id < limit
    /\ next_id' = next_id + 1
    /\ Apply(create_task(Manager, next_id + 1, args),
             Op("create_task", next_id + 1, << >>, 0))
    /\ UNCHANGED signals

StartTask(id, sv) ==
    /\ AttemptsBounded(start_task(Manager, id, sv))
    /\ Apply(start_task(Manager, id, sv), Op("start_task", id, << >>, 0))
    /\ UNCHANGED << next_id, signals >>

PauseTask(id, sv) ==
    /\ Apply(pause_task(Manager, id, sv), Op("pause_task", id, << >>, 0))
    /\ UNCHANGED << next_id, signals >>

ResumeTask(id, sv) ==
    /\ Apply(resume_task(Manager, id, sv), Op("resume_task", id, << >>, 0))
    /\ UNCHANGED << next_id, signals >>

CancelTask(id, sv) ==
    /\ Apply(cancel_task(Manager, id, sv), Op("cancel_task", id, << >>, 0))
    /\ UNCHANGED << next_id, signals >>

RetryTask(id, sv) ==
    /\ AttemptsBounded(retry_task(Manager, id, sv))
    /\ Apply(retry_task(Manager, id, sv), Op("retry_task", id, << >>, 0))
    /\ UNCHANGED << next_id, signals >>

RemoveTask(id, sv) ==
    /\ Apply(remove_task(Manager, id, sv), Op("remove_task", id, << >>, 0))
    /\ UNCHANGED << next_id, signals >>

ClearCompletedTasks(sv) ==
    /\ Apply(clear_completed_tasks(Manager, sv), Op("clear_completed_tasks", 0, << >>, 0))
    /\ UNCHANGED << next_id, signals >>

ReorderTasks(new_order, sv) ==
    /\ Apply(reorder_tasks(Manager, new_order, sv), Op("reorder_tasks", 0, new_order, 0))
    /\ UNCHANGED << next_id, signals >>

PauseQueue(sv) ==
    /\ Apply(pause_queue(Manager, sv), Op("pause_queue", 0, << >>, 0))
    /\ UNCHANGED << next_id, signals >>

ResumeQueue(sv) ==
    /\ Apply(resume_queue(Manager, sv), Op("resume_queue", 0, << >>, 0))
    /\ Deliver(resume_queue(Manager, sv))
    /\ UNCHANGED next_id

CancelQueue(sv) ==
    /\ Apply(cancel_queue(Manager, sv), Op("cancel_queue", 0, << >>, 0))
    /\ UNCHANGED << next_id, signals >>

\* (the operation recorded holds the limit before the call as its id and the
\* new limit as its n)
SetMaxConcurrentTasks(max, sv) ==
    /\ sem_gen < MaxSemaphores
    /\ Apply(set_max_concurrent_tasks(Manager, max, sv),
             Op("set_max_concurrent_tasks", max_concurrent_tasks, << >>, max))
    /\ UNCHANGED << next_id, signals >>

\* The webview invokes run_task(id): the command waits for the main thread.
\* The call remembers the status the task had when it was invoked.
InvokeRunTask(id) ==
    /\ Len(calls) < MaxCalls
    /\ calls' = Append(calls, [ cmd |-> "run_task",
                                 id |-> id, pc |-> "invoked", res |-> None,
                                 task_clone |-> << >>,
                                 status_at_invoke |->
                                     IF HasTask(tasks, id) THEN get_task(tasks, id).status
                                     ELSE None ])
    /\ ApplyManager(Manager, Op("invoke", id, << >>, Len(calls) + 1))
    /\ UNCHANGED threads
    /\ UNCHANGED << next_id, signals >>

\* any thread may begin a command at any time
AnyThreadFree(C) == TRUE

\* run_task is a command without `async`: tauri runs it on the main thread,
\* which begins a command when the one before has returned
MainThreadFree(C) == \A k \in DOMAIN C : C[k].pc # "checked"

\* start_task up to its status check: get_task under the read lock of tasks,
\* which is released before the check
RunTaskCheck(k) ==
    /\ calls[k].cmd = "run_task"
    /\ calls[k].pc = "invoked"
    /\ MainThreadFree(calls)
    /\ LET id == calls[k].id
           res == IF ~HasTask(tasks, id) THEN TaskNotFound
                  ELSE IF ~Startable(get_task(tasks, id).status) THEN InvalidStatus
                  ELSE Ok
       IN  /\ calls' = [calls EXCEPT
                           ![k].pc = IF res = Ok THEN "checked" ELSE "returned",
                           ![k].res = IF res = Ok THEN None ELSE res,
                           ![k].task_clone = IF res = Ok THEN << get_task(tasks, id) >>
                                             ELSE << >>]
           /\ ApplyManager(Return(Manager, IF res = Ok THEN "checked" ELSE res),
                           Op("run_task", id, << >>, k))
           /\ UNCHANGED threads
    /\ UNCHANGED << next_id, signals >>

\* start_task from update_task (under the write lock of tasks) to its return
RunTaskUpdate(k, sv) ==
    /\ calls[k].cmd = "run_task"
    /\ calls[k].pc = "checked"
    /\ \E m \in {start_task_update(Manager, calls[k].id, calls[k].task_clone[1], sv)} :
          /\ calls' = [calls EXCEPT ![k].pc = "returned", ![k].res = m.res]
          /\ ApplyManager(m, Op("run_task", calls[k].id, << >>, k))
          /\ UNCHANGED threads
    /\ UNCHANGED << next_id, signals >>

\* The webview invokes remove_task(id): the command waits for the main thread
InvokeRemoveTask(id) ==
    /\ Len(calls) < MaxCalls
    /\ calls' = Append(calls, [ cmd |-> "remove_task",
                                 id |-> id, pc |-> "invoked", res |-> None,
                                 task_clone |-> << >>,
                                 status_at_invoke |->
                                     IF HasTask(tasks, id) THEN get_task(tasks, id).status
                                     ELSE None ])
    /\ ApplyManager(Manager, Op("invoke", id, << >>, Len(calls) + 1))
    /\ UNCHANGED threads
    /\ UNCHANGED << next_id, signals >>

\* remove_task up to its status check: get_task under the read lock of tasks,
\* which is released before the check
RemoveTaskCheck(k) ==
    /\ calls[k].cmd = "remove_task"
    /\ calls[k].pc = "invoked"
    /\ MainThreadFree(calls)
    /\ LET id == calls[k].id
           res == IF ~HasTask(tasks, id) THEN TaskNotFound
                  ELSE IF get_task(tasks, id).status \in {Running, Paused}
                       THEN InvalidStatus
                  ELSE Ok
       IN  /\ calls' = [calls EXCEPT
                           ![k].pc = IF res = Ok THEN "checked" ELSE "returned",
                           ![k].res = IF res = Ok THEN None ELSE res]
           /\ ApplyManager(Return(Manager, IF res = Ok THEN "checked" ELSE res),
                           Op("remove_task", id, << >>, k))
           /\ UNCHANGED threads
    /\ UNCHANGED << next_id, signals >>

\* remove_task from its retain of tasks (under the write lock) to its return
RemoveTaskUpdate(k, sv) ==
    /\ calls[k].cmd = "remove_task"
    /\ calls[k].pc = "checked"
    /\ \E m \in {remove_task_update(Manager, calls[k].id, sv)} :
          /\ calls' = [calls EXCEPT ![k].pc = "returned", ![k].res = m.res]
          /\ ApplyManager(m, Op("remove_task", calls[k].id, << >>, k))
          /\ UNCHANGED threads
    /\ UNCHANGED << next_id, signals >>

\* update_task_progress called with a progress the engine can report:
\* frame_count / total_frames * 100, where total_frames is an estimate
\* truncated to an integer, so that the value can pass 100
ReportedProgress == {20, 50, 120}

UpdateTaskProgress(id, progress, sv) ==
    /\ Apply(update_task_progress(Manager, id, progress, sv),
             Op("update_task_progress", id, << >>, progress))
    /\ UNCHANGED << next_id, signals >>

\* save_state called by itself
SaveState(sv) ==
    /\ Apply(save_state(Manager, sv), Op("save_state", 0, << >>, 0))
    /\ UNCHANGED << next_id, signals >>

\* The application is started again: a TaskManager is constructed as lib.rs
\* constructs it, beside the store the last process left, and load_state is
\* called on it.  The execution contexts of the last process are gone.
LoadState ==
    /\ Apply(load_state(new(DefaultMaxConcurrentTasks, store)),
             Op("load_state", 0, << >>, 0))
    /\ signals' = {}
    /\ UNCHANGED next_id

\* semaphore.acquire().await returns: the context enters the engine
ContextAcquire(c) ==
    /\ c.pc = "acquire"
    /\ Held(ctxs, c.sem) < c.sem.cap
    /\ Apply([Manager EXCEPT !.ctxs = (@ \ {c}) \cup {[c EXCEPT !.pc = "engine"]}],
             Op("context_acquire", c.task, << >>, 0))
    /\ UNCHANGED << next_id, signals >>

\* the engine reports progress; when the callback returns false the engine
\* returns an error and the context runs to its end
ContextProgress(c, progress) ==
    /\ c.pc = "engine"
    /\ LET cb == progress_callback(Manager, c.task, progress)
           m == [Manager EXCEPT !.ev = cb.ev]
       IN  IF cb.continue
           THEN /\ Apply(Return(m, "continue"),
                         Op("context_progress", c.task, << >>, progress))
                /\ UNCHANGED signals
           ELSE /\ Apply(Return(AfterProcessing(m, c, "Err"), "Err"),
                         Op("context_progress", c.task, << >>, progress))
                /\ Deliver(AfterProcessing(m, c, "Err"))
    /\ UNCHANGED next_id

\* the engine returns by itself: Ok after its final progress_callback(100.0),
\* or an error
ContextFinish(c, outcome) ==
    /\ c.pc = "engine"
    /\ LET m == IF outcome = Ok
                THEN [Manager EXCEPT !.ev = progress_callback(Manager, c.task, 100).ev]
                ELSE Manager
       IN  /\ Apply(Return(AfterProcessing(m, c, outcome), outcome),
                    Op("context_finish", c.task, << >>, 0))
           /\ Deliver(AfterProcessing(m, c, outcome))
    /\ UNCHANGED next_id

\* a listener of the start-task events handles one: it starts the task
ListenerStart(id) ==
    /\ listener
    /\ id \in signals
    /\ AttemptsBounded(start_task(Manager, id, SaveOk))
    /\ signals' = signals \ {id}
    /\ Apply(start_task(Manager, id, SaveOk), Op("listener_start", id, << >>, 0))
    /\ UNCHANGED next_id

InitManager ==
    /\ tasks = << >>
    /\ queue = << >>
    /\ max_concurrent_tasks = DefaultMaxConcurrentTasks
    /\ is_queue_paused = FALSE
    /\ semaphore = [gen |-> 0, cap |-> DefaultMaxConcurrentTasks]
    /\ ctxs = {}
    /\ store = EmptyStore
    /\ next_id = 0
    /\ sem_gen = 0
    /\ signals = {}
    /\ calls = << >>
    /\ threads = [t \in Threads |-> Idle]
    /\ transitions = << >>
    /\ last_op = Op("new", 0, << >>, 0)
    /\ result = Ok
    /\ emitted = << >>

\* lib.rs registers no listener of the events the manager emits
Init == InitManager /\ listener = FALSE

\* the events reach a listener that starts the task of every start-task event
InitListener == InitManager /\ listener = TRUE

\* The steps of the execution contexts
ContextStep ==
    \/ \E c \in ctxs : ContextAcquire(c)
    \/ \E c \in ctxs, progress \in ProgressValues : ContextProgress(c, progress)
    \/ \E c \in ctxs, outcome \in {Ok, "Err"} : ContextFinish(c, outcome)

ListenerStep == \E id \in EngineIds : ListenerStart(id)

\* The task and queue commands, issued in any order; the store accepts every
\* write
Next ==
    \/ CreateTask(MaxTasks)
    \/ \E id \in Ids : StartTask(id, SaveOk)
    \/ \E id \in Ids : PauseTask(id, SaveOk)
    \/ \E id \in Ids : ResumeTask(id, SaveOk)
    \/ \E id \in Ids : CancelTask(id, SaveOk)
    \/ \E id \in Ids : RetryTask(id, SaveOk)
    \/ \E id \in Ids : RemoveTask(id, SaveOk)
    \/ ClearCompletedTasks(SaveOk)
    \/ PauseQueue(SaveOk)
    \/ ResumeQueue(SaveOk)
    \/ CancelQueue(SaveOk)

Spec == Init /\ [][Next]_vars

\* The commands that put ids into the queue or take them out, with
\* reorder_tasks
NextQueue ==
    \/ CreateTask(MaxTasks)
    \/ \E id \in Ids : StartTask(id, SaveOk)
    \/ \E id \in Ids : CancelTask(id, SaveOk)
    \/ \E id \in Ids : RetryTask(id, SaveOk)
    \/ \E id \in Ids : RemoveTask(id, SaveOk)
    \/ \E new_order \in SeqsUpTo(Ids, MaxOrderLen) : ReorderTasks(new_order, SaveOk)

SpecQueue == Init /\ [][NextQueue]_vars

\* create, start and cancel interleaved with the execution contexts
NextEngine ==
    \/ CreateTask(MaxEngineTasks)
    \/ \E id \in EngineIds : StartTask(id, SaveOk)
    \/ \E id \in EngineIds : CancelTask(id, SaveOk)
    \/ ContextStep

SpecEngine == Init /\ [][NextEngine]_vars

\* retry_task with what decides whether it starts the task: the pause flag
\* and the tasks that earlier retries have started
NextRetry ==
    \/ CreateTask(MaxEngineTasks)
    \/ \E id \in EngineIds : CancelTask(id, SaveOk)
    \/ \E id \in EngineIds : RetryTask(id, SaveOk)
    \/ PauseQueue(SaveOk)

SpecRetry == Init /\ [][NextRetry]_vars

\* The commands that take tasks away or rearrange the queue, over tasks that
\* are Pending, Running, Paused or Canceled
NextOrder ==
    \/ CreateTask(MaxTasks)
    \/ \E id \in Ids : StartTask(id, SaveOk)
    \/ \E id \in Ids : PauseTask(id, SaveOk)
    \/ \E id \in Ids : CancelTask(id, SaveOk)
    \/ \E id \in Ids : RemoveTask(id, SaveOk)
    \/ ClearCompletedTasks(SaveOk)
    \/ \E new_order \in SeqsUpTo(Ids, MaxOrderLen) : ReorderTasks(new_order, SaveOk)

SpecOrder == Init /\ [][NextOrder]_vars

\* reorder_tasks over tasks that are Pending, Running, Paused or Canceled
NextReorder ==
    \/ CreateTask(MaxTasks)
    \/ \E id \in Ids : StartTask(id, SaveOk)
    \/ \E id \in Ids : PauseTask(id, SaveOk)
    \/ \E id \in Ids : CancelTask(id, SaveOk)
    \/ \E new_order \in SeqsUpTo(Ids, MaxOrderLen) : ReorderTasks(new_order, SaveOk)

SpecReorder == Init /\ [][NextReorder]_vars

\* The queue-wide commands over tasks that are Pending, Running, Paused or
\* Canceled
NextQueueWide ==
    \/ CreateTask(MaxTasks)
    \/ \E id \in Ids : StartTask(id, SaveOk)
    \/ \E id \in Ids : PauseTask(id, SaveOk)
    \/ \E id \in Ids : CancelTask(id, SaveOk)
    \/ PauseQueue(SaveOk)
    \/ ResumeQueue(SaveOk)
    \/ CancelQueue(SaveOk)

SpecQueueWide == Init /\ [][NextQueueWide]_vars

\* The same with a listener of the start-task events.  A spawned context runs
\* on the tokio runtime until it ends and a delivered event is handled; the
\* commands are up to the client.
NextEngineFair ==
    \/ CreateTask(MaxEngineTasks)
    \/ \E id \in EngineIds : StartTask(id, SaveOk)
    \/ ContextStep
    \/ ListenerStep

SpecEngineFair ==
    /\ InitListener
    /\ [][NextEngineFair]_vars
    /\ WF_vars(ContextStep)
    /\ WF_vars(ListenerStep)

(***************************************************************************)
(* Properties                                                              *)
(***************************************************************************)
\* the status of the task `id` in the task list T
StatusOf(T, id) == get_task(T, id).status

\* the event e is among the events ev
Emitted(ev, e) == \E i \in DOMAIN ev : ev[i] = e

\* the operations a client issues
ClientOps ==
    { "create_task", "start_task", "pause_task", "resume_task", "cancel_task",
      "retry_task", "remove_task", "clear_completed_tasks", "reorder_tasks",
      "pause_queue", "resume_queue", "cancel_queue", "set_max_concurrent_tasks" }

\* C1: every id in the Queue refers to an existing Task whose status is
\* Pending; a Running Task is never in the Queue.
C1_QueueHoldsOnlyPending ==
    \A i \in DOMAIN queue :
        HasTask(tasks, queue[i]) /\ StatusOf(tasks, queue[i]) = Pending

\* C2: every Pending Task has its id in the Queue exactly once, and no id
\* occurs in the Queue twice.
C2_PendingQueuedExactlyOnce ==
    /\ \A i \in DOMAIN tasks :
           tasks[i].status = Pending =>
               Cardinality({j \in DOMAIN queue : queue[j] = tasks[i].id}) = 1
    /\ \A j, k \in DOMAIN queue : queue[j] = queue[k] => j = k

\* C3: the number of Running Tasks never exceeds max_concurrent_tasks.
C3_RunningWithinLimit == running_count(tasks) <= max_concurrent_tasks

\* C4: start_task on a Task that is not Pending fails with InvalidStatus,
\* leaves the Task list, the Queue, the limit, the pause flag and the store
\* unchanged, emits no event and dispatches no execution context.
C4_StartNonPendingRejected ==
    [][ \A id \in Ids :
          ( /\ last_op'.op = "start_task" /\ last_op'.id = id
            /\ HasTask(tasks, id) /\ StatusOf(tasks, id) # Pending )
          => ( /\ result' = InvalidStatus
               /\ UNCHANGED << tasks, queue, max_concurrent_tasks, is_queue_paused,
                               store, ctxs >>
               /\ emitted' = << >> ) ]_vars

\* C4 witness: start_task has just been refused on a Running task
C4_Witness ==
    /\ last_op.op = "start_task" /\ result = InvalidStatus
    /\ HasTask(tasks, last_op.id) /\ StatusOf(tasks, last_op.id) = Running

\* the statuses from which each guarded operation is refused
RefusedFrom(op) ==
    CASE op = "pause_task" -> TaskStatus \ {Running}
      [] op = "resume_task" -> TaskStatus \ {Paused}
      [] op = "cancel_task" -> {Completed, Failed, Canceled}
      [] op = "retry_task" -> TaskStatus \ {Failed, Canceled}
      [] OTHER -> {}

\* C5: pause_task on a Task that is not Running, resume_task on one that is
\* not Paused, cancel_task on a Completed, Failed or Canceled one and
\* retry_task on one that is not Failed or Canceled fail with InvalidStatus and
\* mutate neither the Tasks, nor the Queue, nor the scalar settings.
C5_GuardedOperationsRejected ==
    [][ \A id \in Ids :
          ( /\ last_op'.id = id
            /\ HasTask(tasks, id) /\ StatusOf(tasks, id) \in RefusedFrom(last_op'.op) )
          => ( /\ result' = InvalidStatus
               /\ UNCHANGED << tasks, queue, max_concurrent_tasks, is_queue_paused >>
               /\ transitions' = << >> ) ]_vars

\* C5 witness: retry_task has just been refused on a Running task
C5_Witness ==
    /\ last_op.op = "retry_task" /\ result = InvalidStatus
    /\ HasTask(tasks, last_op.id) /\ StatusOf(tasks, last_op.id) = Running

\* the transitions of the status state machine
ListedTransitions ==
    { << Pending, Running >>, << Running, Paused >>, << Paused, Running >>,
      << Pending, Canceled >>, << Running, Canceled >>, << Paused, Canceled >>,
      << Running, Completed >>, << Running, Failed >>,
      << Failed, Pending >>, << Canceled, Pending >> }

\* the status the updates tr leave the task `id` in, when it had `status`
\* before them; "broken" when an update does not start from the status the
\* task has
RECURSIVE Replay(_, _, _)
Replay(status, tr, id) ==
    IF tr = << >> THEN status
    ELSE IF Head(tr).id # id THEN Replay(status, Tail(tr), id)
    ELSE IF Head(tr).from # status THEN "broken"
    ELSE Replay(Head(tr).to, Tail(tr), id)

\* C6: every change of a Task's status is one of the listed transitions
\* (every status a step writes is a listed transition from the status the Task
\* has, and a Task's status changes by these writes only).
C6_OnlyListedTransitions ==
    [][ /\ \A k \in DOMAIN transitions' :
               << transitions'[k].from, transitions'[k].to >> \in ListedTransitions
        /\ \A i \in DOMAIN tasks, j \in DOMAIN tasks' :
               tasks[i].id = tasks'[j].id
               => Replay(tasks[i].status, transitions', tasks[i].id) = tasks'[j].status
      ]_vars

\* C6 witness: a retry has just taken a Canceled task to Pending and started it
C6_Witness ==
    /\ Len(transitions) = 2
    /\ transitions[1].from = Canceled /\ transitions[1].to = Pending
    /\ transitions[2].from = Pending /\ transitions[2].to = Running

\* C7: start_task on a Pending task while the Running count has reached
\* max_concurrent_tasks leaves that task Pending.
C7_StartWithoutSlotStaysPending ==
    [][ \A id \in EngineIds :
          ( /\ last_op'.op = "start_task" /\ last_op'.id = id
            /\ HasTask(tasks, id) /\ StatusOf(tasks, id) = Pending
            /\ running_count(tasks) >= max_concurrent_tasks )
          => ( HasTask(tasks', id) /\ StatusOf(tasks', id) = Pending ) ]_vars

\* an execution context has just ended for a task that is Running
ContextEnded ==
    /\ last_op.op \in {"context_finish", "context_progress"}
    /\ result \in {Ok, "Err"}
    /\ HasTask(tasks, last_op.id) /\ StatusOf(tasks, last_op.id) = Running

\* C8: when the queue is not paused and the execution context of a Running
\* task ends while a Pending task is queued, the first Pending task in Queue
\* order becomes Running without a further client command.
C8_FreedSlotIsFilled ==
    \A id \in EngineIds :
        ( /\ ContextEnded
          /\ ~is_queue_paused
          /\ PendingInQueueOrder(tasks, queue) # << >>
          /\ Head(PendingInQueueOrder(tasks, queue)) = id )
        ~> ( \/ HasTask(tasks, id) /\ StatusOf(tasks, id) = Running
             \/ last_op.op \in ClientOps )

\* C9: when the engine returns success for a Running Task, the stored Task
\* becomes Completed with progress 100 and completed_at set.
C9_SuccessCompletesTask ==
    [][ \A id \in EngineIds :
          ( /\ last_op'.op = "context_finish" /\ last_op'.id = id /\ result' = Ok
            /\ HasTask(tasks, id) /\ StatusOf(tasks, id) = Running )
          => ( /\ HasTask(tasks', id)
               /\ StatusOf(tasks', id) = Completed
               /\ get_task(tasks', id).progress = 100
               /\ get_task(tasks', id).completed_at ) ]_vars

\* C10: when the engine returns an error for a Running Task, the stored Task
\* becomes Failed with its error set to the message and completed_at set, and
\* a task-failed event with the id and the error is emitted.
C10_FailureIsCaptured ==
    [][ \A id \in EngineIds :
          ( /\ last_op'.op = "context_finish" /\ last_op'.id = id /\ result' = "Err"
            /\ HasTask(tasks, id) /\ StatusOf(tasks, id) = Running )
          => ( /\ HasTask(tasks', id)
               /\ StatusOf(tasks', id) = Failed
               /\ get_task(tasks', id).error = EngineError
               /\ get_task(tasks', id).completed_at
               /\ Emitted(emitted', << "task-failed", id, EngineError >>) ) ]_vars

C12_RetryResetsAndEnqueuesAtTail ==
    [][ \A i \in DOMAIN tasks :
          ( last_op'.op = "retry_task" /\ last_op'.id = tasks[i].id )
          => ( /\ tasks[i].status \in {Failed, Canceled}
                  => ( /\ result' = Ok
                       /\ HasTask(tasks', tasks[i].id)
                       /\ get_task(tasks', tasks[i].id).progress = 0
                       /\ get_task(tasks', tasks[i].id).error = None
                       /\ ~get_task(tasks', tasks[i].id).completed_at
                       /\ Cardinality({j \in DOMAIN queue' : queue'[j] = tasks[i].id}) = 1
                       /\ queue'[Len(queue')] = tasks[i].id )
               /\ tasks[i].status = Completed => result' = InvalidStatus ) ]_vars

\* C13: after a successful retry_task the retried Task is Running if and only
\* if, at the call, the queue was not paused and the Running count was below
\* max_concurrent_tasks; otherwise it is Pending and waits in the Queue.
C13_RetryStartsIffSlotFree ==
    [][ \A i \in DOMAIN tasks :
          ( last_op'.op = "retry_task" /\ last_op'.id = tasks[i].id /\ result' = Ok )
          => ( /\ HasTask(tasks', tasks[i].id)
               /\ StatusOf(tasks', tasks[i].id) = Running
                  <=> ( ~is_queue_paused
                        /\ running_count(tasks) < max_concurrent_tasks )
               /\ StatusOf(tasks', tasks[i].id) # Running
                  => ( /\ StatusOf(tasks', tasks[i].id) = Pending
                       /\ \E j \in DOMAIN queue' : queue'[j] = tasks[i].id ) ) ]_vars

\* C13 witness: a retry has just left its task Pending because the Running
\* count had reached the limit, the queue not being paused
C13_Witness ==
    /\ last_op.op = "retry_task" /\ result = Ok
    /\ HasTask(tasks, last_op.id) /\ StatusOf(tasks, last_op.id) = Pending
    /\ ~is_queue_paused

\* C14: remove_task on a Running or Paused Task fails with InvalidStatus and
\* removes nothing; on a Task in any other status it deletes the Task from the
\* Task list and every occurrence of its id from the Queue and leaves the
\* other Tasks and Queue entries unchanged.
C14_RemoveTaskEffect ==
    [][ \A i \in DOMAIN tasks :
          ( last_op'.op = "remove_task" /\ last_op'.id = tasks[i].id )
          => IF tasks[i].status \in {Running, Paused}
             THEN /\ result' = InvalidStatus
                  /\ UNCHANGED << tasks, queue >>
             ELSE /\ result' = Ok
                  /\ tasks' = SelectSeq(tasks, LAMBDA t : t.id # tasks[i].id)
                  /\ queue' = SelectSeq(queue, LAMBDA q : q # tasks[i].id) ]_vars

\* C14 witness: remove_task has just deleted a task and its queue entries while
\* another task stays queued
C14_Witness ==
    /\ last_op.op = "remove_task" /\ result = Ok
    /\ ~HasTask(tasks, last_op.id)
    /\ Emitted(emitted, << "task-removed", last_op.id >>)
    /\ tasks # << >> /\ queue # << >>

\* ids of the tasks clear_completed_tasks is to remove
Cleared(T) == {T[i].id : i \in {j \in DOMAIN T : T[j].status \in {Completed, Canceled}}}

\* C15: clear_completed_tasks removes every Completed or Canceled Task and
\* leaves every Pending, Running, Paused or Failed Task, and the relative order
\* of the remaining Queue entries, unchanged.
C15_ClearCompletedEffect ==
    [][ last_op'.op = "clear_completed_tasks"
        => ( /\ tasks' = SelectSeq(tasks, LAMBDA t : t.id \notin Cleared(tasks))
             /\ queue' = SelectSeq(queue, LAMBDA q : q \notin Cleared(tasks)) ) ]_vars

\* C15 witness: clear_completed_tasks has just removed a task and left another
\* one, which is still queued
C15_Witness ==
    /\ last_op.op = "clear_completed_tasks"
    /\ \E id \in Ids : Emitted(emitted, << "task-removed", id >>)
    /\ tasks # << >> /\ queue # << >>

\* C16: reorder_tasks with a new_order that holds an id not in the Task list
\* fails with TaskNotFound and leaves the Queue, the Task list and the
\* persisted store exactly as before.
C16_ReorderUnknownIdIsAtomic ==
    [][ ( /\ last_op'.op = "reorder_tasks"
          /\ \E k \in DOMAIN last_op'.order : ~HasTask(tasks, last_op'.order[k]) )
        => ( /\ result' = TaskNotFound
             /\ UNCHANGED << queue, tasks, store >> ) ]_vars

\* C16 witness: reorder_tasks has just failed on a new_order whose first id is
\* known and whose second is not, with a queue to keep
C16_Witness ==
    /\ last_op.op = "reorder_tasks" /\ result = TaskNotFound
    /\ Len(last_op.order) = 2
    /\ HasTask(tasks, last_op.order[1]) /\ ~HasTask(tasks, last_op.order[2])
    /\ queue # << >> /\ queue # << last_op.order[1] >>

\* ids of the Pending tasks
PendingIds(T) == {T[i].id : i \in {j \in DOMAIN T : T[j].status = Pending}}

\* C17: reorder_tasks with a permutation of the ids of the Pending tasks makes
\* the Queue equal to new_order and changes no field of any Task.
C17_ReorderPermutation ==
    [][ ( /\ last_op'.op = "reorder_tasks"
          /\ Len(last_op'.order) = Cardinality(PendingIds(tasks))
          /\ Range(last_op'.order) = PendingIds(tasks) )
        => ( /\ result' = Ok
             /\ queue' = last_op'.order
             /\ tasks' = tasks ) ]_vars

\* C17 witness: reorder_tasks has just put the second Pending task before the
\* first
C17_Witness ==
    /\ last_op.op = "reorder_tasks" /\ result = Ok
    /\ last_op.order = << 2, 1 >> /\ queue = << 2, 1 >>
    /\ PendingIds(tasks) = {1, 2}

\* the task list T with every task of status `from` moved to status `to`
Moved(T, from, to) ==
    [i \in DOMAIN T |-> IF T[i].status = from THEN [T[i] EXCEPT !.status = to]
                         ELSE T[i]]

\* C18: pause_queue sets is_queue_paused and moves every Running Task to
\* Paused, leaving the other Tasks unchanged; resume_queue clears
\* is_queue_paused, moves every Paused Task back to Running and re-runs
\* admission: when a slot is free afterwards, the start-task signal is emitted
\* for the first Pending task in Queue order.
C18_PauseAndResumeQueue ==
    [][ /\ last_op'.op = "pause_queue"
           => ( /\ result' = Ok
                /\ is_queue_paused'
                /\ tasks' = Moved(tasks, Running, Paused) )
        /\ last_op'.op = "resume_queue"
           => ( /\ result' = Ok
                /\ ~is_queue_paused'
                /\ tasks' = Moved(tasks, Paused, Running)
                /\ \A k \in DOMAIN queue' :
                       ( /\ running_count(tasks') < max_concurrent_tasks'
                         /\ HasTask(tasks', queue'[k])
                         /\ StatusOf(tasks', queue'[k]) = Pending
                         /\ \A j \in 1..(k-1) :
                                ~( HasTask(tasks', queue'[j])
                                   /\ StatusOf(tasks', queue'[j]) = Pending ) )
                       => Emitted(emitted', << "start-task", queue'[k] >>) )
      ]_vars

\* C18 witness: resume_queue has just resumed a Paused task and signalled the
\* start of a Pending one
C18_Witness ==
    /\ last_op.op = "resume_queue" /\ ~is_queue_paused
    /\ \E id \in Ids : Emitted(emitted, << "task-resumed", id >>)
    /\ \E id \in Ids : Emitted(emitted, << "start-task", id >>)

\* C19: after cancel_queue every Task that was Pending, Running or Paused is
\* Canceled with completed_at set, the Queue is empty and the other Tasks are
\* unchanged.
C19_CancelQueueEffect ==
    [][ last_op'.op = "cancel_queue"
        => ( /\ result' = Ok
             /\ queue' = << >>
             /\ DOMAIN tasks' = DOMAIN tasks
             /\ \A i \in DOMAIN tasks :
                    IF tasks[i].status \in {Pending, Running, Paused}
                    THEN /\ tasks'[i].id = tasks[i].id
                         /\ tasks'[i].status = Canceled
                         /\ tasks'[i].completed_at
                    ELSE tasks'[i] = tasks[i] ) ]_vars

\* C19 witness: cancel_queue has just canceled two tasks, one of them Paused
C19_Witness ==
    /\ last_op.op = "cancel_queue" /\ queue = << >>
    /\ Len(transitions) = 2
    /\ \E k \in DOMAIN transitions : transitions[k].from = Paused

\* the operations that change what is persisted
MutatingOps ==
    { "create_task", "start_task", "pause_task", "resume_task", "cancel_task",
      "retry_task", "remove_task", "reorder_tasks", "pause_queue",
      "resume_queue", "cancel_queue", "set_max_concurrent_tasks" }

\* C20: when a mutating operation has returned successfully, the persisted
\* keys tasks, queue, max_concurrent_tasks and is_queue_paused equal the
\* in-memory Task list, Queue, limit and pause flag.
C20_StoreMatchesMemory ==
    ( last_op.op \in MutatingOps /\ result = Ok )
    => ( /\ store.tasks = << to_value(tasks) >>
         /\ store.queue = << queue >>
         /\ store.max_concurrent_tasks = << max_concurrent_tasks >>
         /\ store.is_queue_paused = << is_queue_paused >> )

(***************************************************************************)
(* Persistence across a restart                                            *)
(***************************************************************************)
\* Commands that change each persisted field, save_state with every outcome
\* of the store, and a restart that loads what the store holds
NextPersist ==
    \/ CreateTask(MaxTasks)
    \/ \E id \in Ids : StartTask(id, SaveOk)
    \/ PauseQueue(SaveOk)
    \/ \E max \in 0..MaxLimit : SetMaxConcurrentTasks(max, SaveOk)
    \/ \E sv \in SaveOutcomes : SaveState(sv)
    \/ LoadState

SpecPersist == Init /\ [][NextPersist]_vars

\* C21: load_state on a freshly constructed manager, right after a save_state
\* that returned Ok, yields the Task list, Queue, limit and pause flag of the
\* saving manager; with no snapshot in the store it leaves the fresh manager
\* (no Task, empty Queue, default limit, not paused) as it is and returns Ok.
C21_SaveLoadRoundTrip ==
    [][ last_op'.op = "load_state" =>
          /\ ( last_op.op = "save_state" /\ result = Ok )
               => ( /\ tasks' = tasks
                    /\ queue' = queue
                    /\ max_concurrent_tasks' = max_concurrent_tasks
                    /\ is_queue_paused' = is_queue_paused
                    /\ result' = Ok )
          /\ ( store = EmptyStore )
               => ( /\ tasks' = << >>
                    /\ queue' = << >>
                    /\ max_concurrent_tasks' = DefaultMaxConcurrentTasks
                    /\ is_queue_paused' = FALSE
                    /\ result' = Ok ) ]_vars

\* a restart has loaded a snapshot with a started Task, a non-empty Queue, a
\* changed limit and a paused queue
C21_Witness ==
    /\ last_op.op = "load_state"
    /\ result = Ok
    /\ \E i \in DOMAIN tasks : tasks[i].status # Pending /\ tasks[i].attempts > 0
    /\ queue # << >>
    /\ max_concurrent_tasks # DefaultMaxConcurrentTasks
    /\ is_queue_paused
    /\ store.tasks = << to_value(tasks) >>

(***************************************************************************)
(* Commands over a store that may refuse a write                           *)
(***************************************************************************)
NextSaveFail ==
    \/ CreateTask(MaxTasks)
    \/ \E id \in Ids, sv \in SaveOutcomes : StartTask(id, sv)
    \/ \E id \in Ids, sv \in SaveOutcomes : PauseTask(id, sv)
    \/ \E id \in Ids, sv \in SaveOutcomes : CancelTask(id, sv)

SpecSaveFail == Init /\ [][NextSaveFail]_vars

\* the store holds exactly what the manager holds
StoreIsMemory ==
    /\ store.tasks = << to_value(tasks) >>
    /\ store.queue = << queue >>
    /\ store.max_concurrent_tasks = << max_concurrent_tasks >>
    /\ store.is_queue_paused = << is_queue_paused >>

\* the operations of SpecSaveFail that call save_state
SavingOps == { "start_task", "pause_task", "cancel_task" }

\* C22: when a mutating operation fails with StoreSaveError the status it
\* wrote stays in the Task list, and the next mutating operation whose save
\* succeeds leaves the full current state (Task list, Queue, limit, pause
\* flag) in the store.
C22_FailedSaveIsNotRolledBack ==
    [][ last_op'.op \in SavingOps =>
          /\ result' = StoreSaveError
               => ( /\ transitions' # << >>
                    /\ \A k \in DOMAIN transitions' :
                          StatusOf(tasks', transitions'[k].id) = transitions'[k].to )
          /\ ( result = StoreSaveError /\ result' = Ok ) => StoreIsMemory' ]_vars

(***************************************************************************)
(* The progress callback                                                   *)
(***************************************************************************)
\* Tasks are started, paused and canceled while their execution contexts run
NextCallback ==
    \/ CreateTask(MaxTasks)
    \/ \E id \in Ids : StartTask(id, SaveOk)
    \/ \E id \in Ids : PauseTask(id, SaveOk)
    \/ \E id \in Ids : CancelTask(id, SaveOk)
    \/ ContextStep

SpecCallback == Init /\ [][NextCallback]_vars

\* C23: the progress callback returns false (the engine stops with an error)
\* when the Task's status in the Task list is Canceled or Paused, and true
\* (the engine continues) when it is Running.
C23_CallbackFollowsLiveStatus ==
    [][ ( last_op'.op = "context_progress" /\ HasTask(tasks, last_op'.id) ) =>
          /\ StatusOf(tasks, last_op'.id) \in {Canceled, Paused} => result' = "Err"
          /\ StatusOf(tasks, last_op'.id) = Running => result' = "continue" ]_vars

\* the callback has just returned false for a Paused task
C23_Witness ==
    /\ last_op.op = "context_progress"
    /\ result = "Err"
    /\ StatusOf(tasks, last_op.id) = Paused

(***************************************************************************)
(* Admission after a change of the limit                                   *)
(***************************************************************************)
\* Tasks are created and started, the limit is changed, the execution
\* contexts run and a listener answers every start-task event
NextLimitFair ==
    \/ CreateTask(MaxTasks)
    \/ \E id \in Ids : StartTask(id, SaveOk)
    \/ \E max \in 0..MaxLimit : SetMaxConcurrentTasks(max, SaveOk)
    \/ ContextStep
    \/ ListenerStep

SpecLimitFair ==
    /\ InitListener
    /\ [][NextLimitFair]_vars
    /\ WF_vars(ContextStep)
    /\ WF_vars(ListenerStep)

\* the limit has just been raised
LimitRaised ==
    /\ last_op.op = "set_max_concurrent_tasks"
    /\ result = Ok
    /\ last_op.n > last_op.id

\* C24: after set_max_concurrent_tasks has raised the limit while the queue
\* is not paused and Pending tasks are queued, Pending tasks are started until
\* the Running count reaches the new limit or no Pending task is queued
\* (unless the client issues a further command first).
C24_RaisedLimitAdmits ==
    ( /\ LimitRaised
      /\ ~is_queue_paused
      /\ PendingInQueueOrder(tasks, queue) # << >> )
    ~> ( \/ running_count(tasks) >= max_concurrent_tasks
         \/ PendingInQueueOrder(tasks, queue) = << >>
         \/ last_op.op \in ClientOps \ {"set_max_concurrent_tasks"} )

(***************************************************************************)
(* Commands invoked at the same time                                       *)
(***************************************************************************)
\* run_task commands are invoked while others wait or run; each runs in the
\* two lock scopes of start_task
NextConcurrent ==
    \/ CreateTask(MaxTasks)
    \/ \E id \in Ids : InvokeRunTask(id)
    \/ \E k \in DOMAIN calls : RunTaskCheck(k)
    \/ \E k \in DOMAIN calls : RunTaskUpdate(k, SaveOk)

SpecConcurrent == Init /\ [][NextConcurrent]_vars

\* the calls invoked for the task `id` while it was Pending
InvokedWhilePending(id) ==
    {k \in DOMAIN calls : calls[k].id = id /\ calls[k].status_at_invoke = Pending}

\* the calls invoked for the task `id`
InvokedFor(id) == {k \in DOMAIN calls : calls[k].id = id}

\* at least two calls were invoked for the task `id` while it was Pending, and
\* every call for it has returned
AllReturned(id) ==
    /\ Cardinality(InvokedWhilePending(id)) >= 2
    /\ \A k \in InvokedFor(id) : calls[k].pc = "returned"

NextCreate ==
    \/ \E args \in CreateArgs : CreateTaskWith(MaxTasks, args)
    \/ \E id \in Ids : StartTask(id, SaveOk)
    \/ \E id \in Ids : CancelTask(id, SaveOk)
    \/ \E id \in Ids : RemoveTask(id, SaveOk)

SpecCreate == Init /\ [][NextCreate]_vars

\* Tasks are created with different arguments and taken through their
\* lifecycle
NextFields ==
    \/ \E args \in CreateArgs : CreateTaskWith(MaxTasks, args)
    \/ \E id \in Ids : StartTask(id, SaveOk)
    \/ \E id \in Ids : PauseTask(id, SaveOk)
    \/ \E id \in Ids : ResumeTask(id, SaveOk)
    \/ \E id \in Ids : CancelTask(id, SaveOk)
    \/ \E id \in Ids : RetryTask(id, SaveOk)
    \/ \E id \in Ids : RemoveTask(id, SaveOk)

SpecFields == Init /\ [][NextFields]_vars

\* C26: create_task returns Ok with an id no existing Task has, appends a
\* Task with that id, status Pending, progress 0, attempts 0, no error, no
\* started_at and no completed_at to the Task list, appends the id at the tail
\* of the Queue and leaves the existing Tasks and Queue entries as they are.
C26_CreateTaskEffect ==
    [][ last_op'.op = "create_task" =>
          /\ result' = Ok
          /\ ~HasTask(tasks, last_op'.id)
          /\ Len(tasks') = Len(tasks) + 1
          /\ SubSeq(tasks', 1, Len(tasks)) = tasks
          /\ LET t == tasks'[Len(tasks')]
             IN  /\ t.id = last_op'.id
                 /\ t.status = Pending /\ t.progress = 0 /\ t.attempts = 0
                 /\ t.error = None /\ ~t.started_at /\ ~t.completed_at
          /\ queue' = Append(queue, last_op'.id) ]_vars

\* a task has just been created beside a started task, behind a queued id
C26_Witness ==
    /\ last_op.op = "create_task"
    /\ Len(queue) >= 2
    /\ \E i \in DOMAIN tasks : tasks[i].status = Running

\* the fields of a Task that are set at its creation
CreationFields(t) ==
    [ id |-> t.id, input_path |-> t.input_path, output_path |-> t.output_path,
      task_type |-> t.task_type, config |-> t.config ]

\* C27: every Task a step leaves in the Task list has the id, input_path,
\* output_path, task_type and config of a Task that was in it before the step
\* at the same place among the remaining Tasks, or is the Task the step
\* created; and no two Tasks of the list have the same id.
C27_CreationFieldsImmutable ==
    [][ /\ \A j \in DOMAIN tasks' :
              \/ \E i \in DOMAIN tasks :
                    /\ CreationFields(tasks[i]) = CreationFields(tasks'[j])
                    /\ i >= j
              \/ last_op'.op = "create_task" /\ j = Len(tasks')
        /\ \A i \in DOMAIN tasks : \A j \in DOMAIN tasks' :
              tasks[i].id = tasks'[j].id
              => CreationFields(tasks[i]) = CreationFields(tasks'[j])
        /\ \A i \in DOMAIN tasks' : \A j \in DOMAIN tasks' :
              tasks'[i].id = tasks'[j].id => i = j ]_vars

\* a task created with the second set of arguments has been retried and
\* started again beside a task created with the first
C27_Witness ==
    /\ last_op.op = "retry_task" /\ result = Ok
    /\ \E i \in DOMAIN tasks :
          /\ tasks[i].id = last_op.id
          /\ tasks[i].input_path = "b.mp4" /\ tasks[i].config # {}
    /\ \E i \in DOMAIN tasks : tasks[i].input_path = "a.mp4"

\* C28: max_concurrent_tasks is at least 1 in every reachable state, after
\* set_max_concurrent_tasks and after load_state too.
C28_LimitIsPositive == max_concurrent_tasks >= 1

(***************************************************************************)
(* Admission                                                               *)
(***************************************************************************)
\* Tasks are created, started and reordered, the queue is paused and resumed,
\* and the execution contexts run: process_next_tasks is called by
\* resume_queue and at the end of every context
NextAdmission ==
    \/ CreateTask(MaxEngineTasks)
    \/ \E id \in EngineIds : StartTask(id, SaveOk)
    \/ \E new_order \in SeqsUpTo(EngineIds, MaxOrderLen) : ReorderTasks(new_order, SaveOk)
    \/ PauseQueue(SaveOk)
    \/ ResumeQueue(SaveOk)
    \/ ContextStep

SpecAdmission == Init /\ [][NextAdmission]_vars

\* the last step has called process_next_tasks (as its last call: the state
\* it read is the state the step left)
ProcessNextTasksRan ==
    \/ last_op.op = "resume_queue" /\ result = Ok
    \/ last_op.op = "context_finish"
    \/ last_op.op = "context_progress" /\ result = "Err"

\* the ids of the start-task events among the events ev, in order
RECURSIVE StartTaskIds(_)
StartTaskIds(ev) ==
    IF ev = << >> THEN << >>
    ELSE (IF Head(ev)[1] = "start-task" THEN << Head(ev)[2] >> ELSE << >>)
         \o StartTaskIds(Tail(ev))

\* the task with this id is in the Task list and Pending
IsPendingId(id) == HasTask(tasks, id) /\ StatusOf(tasks, id) = Pending

\* min(a, b)
Min(a, b) == IF a < b THEN a ELSE b

\* C29: process_next_tasks emits no start-task event when the queue is paused
\* or when max_concurrent_tasks minus the Running count is 0 (or less);
\* otherwise it emits one for exactly the first min(available, number of
\* Pending ids in the Queue) Pending ids in Queue order, and for no id whose
\* Task is not Pending.
C29_ProcessNextTasksSelection ==
    ProcessNextTasksRan =>
        LET started == StartTaskIds(emitted)
            pending == SelectSeq(queue, IsPendingId)
            available == max_concurrent_tasks - running_count(tasks)
        IN  /\ ( is_queue_paused \/ available <= 0 ) => started = << >>
            /\ ~( is_queue_paused \/ available <= 0 )
                  => started = SubSeq(pending, 1, Min(available, Len(pending)))
            /\ \A i \in DOMAIN started : IsPendingId(started[i])

\* process_next_tasks has just passed over a Pending id for lack of a second
\* slot, after a queued id whose Task is not Pending
C29_Witness ==
    /\ ProcessNextTasksRan
    /\ Len(StartTaskIds(emitted)) = 1
    /\ Len(SelectSeq(queue, IsPendingId)) = 2
    /\ ~IsPendingId(Head(queue))

(***************************************************************************)
(* The tasks the manager chooses to start                                  *)
(***************************************************************************)
\* Tasks are created, canceled and retried, and the queue is paused and
\* resumed: retry_task starts the retried task and resume_queue calls
\* process_next_tasks
NextChoice ==
    \/ CreateTask(MaxTasks)
    \/ \E id \in Ids : CancelTask(id, SaveOk)
    \/ \E id \in Ids : RetryTask(id, SaveOk)
    \/ PauseQueue(SaveOk)
    \/ ResumeQueue(SaveOk)

SpecChoice == Init /\ [][NextChoice]_vars

\* the task with this id is in the Task list T and Pending
PendingIn(T, id) == HasTask(T, id) /\ StatusOf(T, id) = Pending

\* C30: a task the manager chooses to start is the earliest Pending task in
\* Queue order: when retry_task starts the retried task no Pending task
\* precedes it in the Queue, and every Pending id that precedes an id
\* process_next_tasks emits a start-task event for has one emitted before it.
C30_StartsEarliestPending ==
    [][ /\ ( /\ last_op'.op = "retry_task"
             /\ \E k \in DOMAIN transitions' :
                   /\ transitions'[k].id = last_op'.id
                   /\ transitions'[k].to = Running )
           => \A p \in 1..(Position(queue', last_op'.id) - 1) :
                  ~PendingIn(tasks', queue'[p])
        /\ ( last_op'.op = "resume_queue" )
           => LET started == StartTaskIds(emitted')
              IN  \A i \in DOMAIN started :
                      \A p \in 1..(Position(queue', started[i]) - 1) :
                          PendingIn(tasks', queue'[p])
                          => \E j \in 1..(i - 1) : started[j] = queue'[p] ]_vars

(***************************************************************************)
(* The fields the transitions maintain                                     *)
(***************************************************************************)
\* the number of updates among tr that take the task `id` from Pending to
\* Running
RECURSIVE Starts(_, _)
Starts(tr, id) ==
    IF tr = << >> THEN 0
    ELSE (IF Head(tr).id = id /\ Head(tr).from = Pending /\ Head(tr).to = Running
          THEN 1 ELSE 0) + Starts(Tail(tr), id)

NextTerminal ==
    \/ CreateTask(MaxTasks)
    \/ \E id \in Ids : StartTask(id, SaveOk)
    \/ \E id \in Ids : CancelTask(id, SaveOk)
    \/ \E id \in Ids : RetryTask(id, SaveOk)
    \/ ContextStep

SpecTerminal == Init /\ [][NextTerminal]_vars

\* completed_at is set exactly when the status is terminal
CompletedAtMatchesStatus(t) == t.completed_at <=> t.status \in {Completed, Failed, Canceled}

\* C32: a Task's completed_at is set if and only if its status is Completed,
\* Failed or Canceled, in the Task list and in every Task an execution
\* context reports in a task-updated event.
C32_CompletedAtIffTerminal ==
    /\ \A i \in DOMAIN tasks : CompletedAtMatchesStatus(tasks[i])
    /\ \A k \in DOMAIN emitted :
          emitted[k][1] = "task-updated" => CompletedAtMatchesStatus(emitted[k][2])

\* retry_task has just reset a Canceled task: completed_at is cleared
C32_Witness ==
    /\ last_op.op = "retry_task" /\ result = Ok
    /\ transitions[1].from = Canceled
    /\ ~get_task(tasks, last_op.id).completed_at

\* Tasks are started, canceled and retried and their progress is written
NextProgress ==
    \/ CreateTask(MaxTasks)
    \/ \E id \in Ids : StartTask(id, SaveOk)
    \/ \E id \in Ids : CancelTask(id, SaveOk)
    \/ \E id \in Ids : RetryTask(id, SaveOk)
    \/ \E id \in Ids, progress \in ReportedProgress :
          UpdateTaskProgress(id, progress, SaveOk)

SpecProgress == Init /\ [][NextProgress]_vars

TasksLock == "tasks"
QueueLock == "queue"
MaxLock == "max_concurrent_tasks"
PausedLock == "is_queue_paused"
SemaphoreLock == "semaphore"
PauseMutex == "pause_condvar"

Read(l) == [kind |-> "lock", lock |-> l, mode |-> "read"]
Write(l) == [kind |-> "lock", lock |-> l, mode |-> "write"]
Drop(l) == [kind |-> "drop", lock |-> l, mode |-> None]
\* store_helper::set_value: store.set and store.save
SetValue == [kind |-> "set_value", lock |-> None, mode |-> None]
\* emit_event
EmitEvent == [kind |-> "emit", lock |-> None, mode |-> None]

RECURSIVE Repeat(_, _)
Repeat(prog, n) == IF n = 0 THEN << >> ELSE prog \o Repeat(prog, n - 1)

get_task_locks == << Read(TasksLock), Drop(TasksLock) >>

update_task_locks == << Write(TasksLock), Drop(TasksLock) >>

\* save_state takes the queue guard before the tasks guard
save_state_locks_queue_first ==
    << Read(QueueLock), Read(TasksLock), SetValue, SetValue,
       Read(MaxLock), SetValue, Drop(MaxLock),
       Read(PausedLock), SetValue, Drop(PausedLock),
       Drop(TasksLock), Drop(QueueLock) >>

\* save_state: the guards `tasks` and `queue` live to the end of the function
save_state_locks ==
    << Read(TasksLock), Read(QueueLock), SetValue, SetValue,
       Read(MaxLock), SetValue, Drop(MaxLock),
       Read(PausedLock), SetValue, Drop(PausedLock),
       Drop(QueueLock), Drop(TasksLock) >>

create_task_locks ==
    << Write(TasksLock), Drop(TasksLock), Write(QueueLock), Drop(QueueLock) >>

\* start_task: the spawned block runs on a worker thread
start_task_locks ==
    get_task_locks \o update_task_locks \o save_state_locks \o << EmitEvent >>
    \o << Read(SemaphoreLock), Drop(SemaphoreLock) >>

\* process_next_tasks that finds n tasks to start
process_next_tasks_locks(n) ==
    << Read(PausedLock), Drop(PausedLock), Read(TasksLock), Drop(TasksLock),
       Read(MaxLock), Drop(MaxLock),
       Read(TasksLock), Read(QueueLock), Drop(QueueLock), Drop(TasksLock) >>
    \o Repeat(<< EmitEvent >>, n)

pause_task_locks ==
    get_task_locks \o update_task_locks \o save_state_locks \o << EmitEvent >>

update_task_progress_locks == update_task_locks \o save_state_locks

resume_task_locks ==
    get_task_locks \o update_task_locks \o save_state_locks \o << EmitEvent >>
    \o << Write(PauseMutex), Drop(PauseMutex) >>

\* cancel_task: the guard of the pause mutex lives to the end of the function
cancel_task_locks ==
    get_task_locks \o update_task_locks \o save_state_locks \o << EmitEvent >>
    \o << Write(PauseMutex), Write(QueueLock), Drop(QueueLock), Drop(PauseMutex) >>

\* retry_task, with (n = 1) or without (n = 0) its call of start_task
retry_task_locks(n) ==
    get_task_locks \o update_task_locks \o save_state_locks \o << EmitEvent >>
    \o << Write(QueueLock), Drop(QueueLock), Read(PausedLock), Drop(PausedLock),
          Read(TasksLock), Drop(TasksLock), Read(MaxLock), Drop(MaxLock) >>
    \o Repeat(start_task_locks, n)

remove_task_locks ==
    get_task_locks
    \o << Write(TasksLock), Drop(TasksLock), Write(QueueLock), Drop(QueueLock) >>
    \o save_state_locks \o << EmitEvent >>

\* clear_completed_tasks that finds n terminal tasks
clear_completed_tasks_locks(n) ==
    << Read(TasksLock), Drop(TasksLock) >> \o Repeat(remove_task_locks, n)

reorder_tasks_locks ==
    << Read(TasksLock), Drop(TasksLock), Write(QueueLock), Drop(QueueLock) >>
    \o save_state_locks \o << EmitEvent >>

set_max_concurrent_tasks_locks ==
    << Write(MaxLock), Drop(MaxLock), Write(SemaphoreLock), Drop(SemaphoreLock) >>
    \o save_state_locks \o << EmitEvent >>

start_queue_locks(n) ==
    << Read(PausedLock), Drop(PausedLock) >> \o process_next_tasks_locks(n)
    \o << EmitEvent >>

\* pause_queue that finds n Running tasks
pause_queue_locks(n) ==
    << Write(PausedLock), Drop(PausedLock), Read(TasksLock), Drop(TasksLock) >>
    \o Repeat(pause_task_locks, n) \o << EmitEvent >> \o save_state_locks

\* resume_queue that finds n Paused tasks
resume_queue_locks(n) ==
    << Write(PausedLock), Drop(PausedLock), Read(TasksLock), Drop(TasksLock) >>
    \o Repeat(resume_task_locks, n) \o process_next_tasks_locks(n)
    \o << EmitEvent >> \o save_state_locks

\* cancel_queue that finds n tasks to cancel
cancel_queue_locks(n) ==
    << Read(TasksLock), Drop(TasksLock) >> \o Repeat(cancel_task_locks, n)
    \o << Write(QueueLock), Drop(QueueLock), EmitEvent >> \o save_state_locks

\* the progress callback of process_task: the event, then get_task
progress_callback_locks == << EmitEvent >> \o get_task_locks

\* update_task_status: get_task, then the task-updated event
update_task_status_locks == get_task_locks \o << EmitEvent >>

\* the block start_task spawns, once the engine has returned:
\* update_task_status, the task-completed or task-failed event and
\* process_next_tasks
spawned_locks(n) ==
    update_task_status_locks \o << EmitEvent >> \o process_next_tasks_locks(n)

\* the loops run over no task or over MaxLoop tasks
LoopCounts == {0, MaxLoop}

\* The commands the main thread runs, by name
CommandLocks ==
    {<< "create_task", create_task_locks >>,
     << "start_task", start_task_locks >>,
     << "pause_task", pause_task_locks >>,
     << "resume_task", resume_task_locks >>,
     << "cancel_task", cancel_task_locks >>,
     << "remove_task", remove_task_locks >>,
     << "reorder_tasks", reorder_tasks_locks >>,
     << "update_task_progress", update_task_progress_locks >>,
     << "set_max_concurrent_tasks", set_max_concurrent_tasks_locks >>}
    \cup {<< "retry_task", retry_task_locks(n) >> : n \in 0..1}
    \cup {<< "clear_completed_tasks", clear_completed_tasks_locks(n) >> : n \in LoopCounts}
    \cup {<< "start_queue", start_queue_locks(n) >> : n \in LoopCounts}
    \cup {<< "pause_queue", pause_queue_locks(n) >> : n \in LoopCounts}
    \cup {<< "resume_queue", resume_queue_locks(n) >> : n \in LoopCounts}
    \cup {<< "cancel_queue", cancel_queue_locks(n) >> : n \in LoopCounts}

\* What the worker threads run: the engine, which calls the progress
\* callback of its task, and the rest of the spawned block
WorkerLocks ==
    {<< "progress_callback", progress_callback_locks >>}
    \cup {<< "spawned", spawned_locks(n) >> : n \in LoopCounts}

\* the thread t has returned from its operation
Returned(th) == th.pc > Len(th.prog)

\* the step the thread is at
NextStep(th) == th.prog[th.pc]

\* the threads other than t that hold the lock l in one of the modes
Holders(T, l, modes, t) ==
    {u \in DOMAIN T \ {t} : \E mode \in modes : << l, mode >> \in T[u].held}

\* the threads other than t that wait for the write guard of l
WaitingWriters(T, l, t) ==
    {u \in DOMAIN T \ {t} : /\ ~Returned(T[u])
                            /\ NextStep(T[u]) = Write(l)
                            /\ Holders(T, l, {"read", "write"}, u) # {}}

\* parking_lot's RwLock and std's Mutex: a write guard (and the mutex guard)
\* excludes every other guard, itself included; a read guard is not granted
\* while a writer holds the lock or waits for it
Grantable(T, t, step) ==
    IF step.mode = "write"
    THEN /\ Holders(T, step.lock, {"read", "write"}, t) = {}
         /\ \A mode \in {"read", "write"} : << step.lock, mode >> \notin T[t].held
    ELSE /\ Holders(T, step.lock, {"write"}, t) = {}
         /\ WaitingWriters(T, step.lock, t) = {}
         /\ << step.lock, "write" >> \notin T[t].held

\* the thread t is at a lock it cannot take now
Blocked(T, t) ==
    /\ ~Returned(T[t])
    /\ NextStep(T[t]).kind = "lock"
    /\ ~Grantable(T, t, NextStep(T[t]))

\* a step of a thread leaves the manager's data as it is: only the guards move
LockStepApplies ==
    UNCHANGED << tasks, queue, max_concurrent_tasks, is_queue_paused, semaphore,
                 ctxs, store, next_id, sem_gen, listener, signals, calls,
                 transitions, last_op, result, emitted >>

\* an idle thread enters an operation
Begin(t, entry) ==
    /\ Returned(threads[t])
    /\ threads' = [threads EXCEPT ![t] = [op |-> entry[1], prog |-> entry[2],
                                          pc |-> 1, held |-> {}]]
    /\ LockStepApplies

\* the thread takes the guard it is at
Acquire(t) ==
    /\ ~Returned(threads[t])
    /\ NextStep(threads[t]).kind = "lock"
    /\ Grantable(threads, t, NextStep(threads[t]))
    /\ threads' = [threads EXCEPT
                      ![t].held = @ \cup {<< NextStep(threads[t]).lock,
                                             NextStep(threads[t]).mode >>},
                      ![t].pc = @ + 1]
    /\ LockStepApplies

\* the guard goes out of scope
Release(t) ==
    /\ ~Returned(threads[t])
    /\ NextStep(threads[t]).kind = "drop"
    /\ threads' = [threads EXCEPT
                      ![t].held = {g \in @ : g[1] # NextStep(threads[t]).lock},
                      ![t].pc = @ + 1]
    /\ LockStepApplies

\* set_value writes the store; when it fails, `?` returns from the operation
\* and the guards in scope are dropped
StoreWrite(t, ok) ==
    /\ ~Returned(threads[t])
    /\ NextStep(threads[t]).kind = "set_value"
    /\ threads' = IF ok
                  THEN [threads EXCEPT ![t].pc = @ + 1]
                  ELSE [threads EXCEPT ![t].pc = Len(threads[t].prog) + 1,
                                       ![t].held = {}]
    /\ LockStepApplies

\* emit_event
Emit(t) ==
    /\ ~Returned(threads[t])
    /\ NextStep(threads[t]).kind = "emit"
    /\ threads' = [threads EXCEPT ![t].pc = @ + 1]
    /\ LockStepApplies

\* The commands on the main thread and the spawned blocks on the worker
\* threads, interleaved guard by guard
NextLocks ==
    \/ \E entry \in CommandLocks : Begin(MainThread, entry)
    \/ \E t \in Workers, entry \in WorkerLocks : Begin(t, entry)
    \/ \E t \in Threads : Acquire(t)
    \/ \E t \in Threads : Release(t)
    \/ \E t \in Threads, ok \in BOOLEAN : StoreWrite(t, ok)
    \/ \E t \in Threads : Emit(t)

SpecLocks == Init /\ [][NextLocks]_vars

\* the thread holds a guard of the Task list or of the Queue
HoldsTasksOrQueue(th) == \E g \in th.held : g[1] \in {TasksLock, QueueLock}

\* C34: no operation writes to the store or emits an event while it holds a
\* lock on the Task list or on the Queue
C34_NoLockHeldWhilePersistingOrEmitting ==
    \A t \in Threads :
        (~Returned(threads[t]) /\ NextStep(threads[t]).kind \in {"set_value", "emit"})
            => ~HoldsTasksOrQueue(threads[t])
(***************************************************************************)
(* remove_task invoked beside start_task                                   *)
(***************************************************************************)
\* run_task and remove_task commands are invoked while others wait or run;
\* each runs in its lock scopes: the status check, then the update
NextRemove ==
    \/ CreateTask(MaxTasks)
    \/ \E id \in Ids : InvokeRunTask(id)
    \/ \E id \in Ids : InvokeRemoveTask(id)
    \/ \E k \in DOMAIN calls : RunTaskCheck(k)
    \/ \E k \in DOMAIN calls : RunTaskUpdate(k, SaveOk)
    \/ \E k \in DOMAIN calls : RemoveTaskCheck(k)
    \/ \E k \in DOMAIN calls : RemoveTaskUpdate(k, SaveOk)

SpecRemove == Init /\ [][NextRemove]_vars

NextResume ==
    \/ CreateTask(MaxTasks)
    \/ \E id \in Ids : StartTask(id, SaveOk)
    \/ \E id \in Ids : PauseTask(id, SaveOk)
    \/ \E id \in Ids : ResumeTask(id, SaveOk)
    \/ ContextStep

SpecResume == Init /\ [][NextResume]_vars

\* the task has an execution context: one that waits for its permit or is
\* inside the engine
HasContext(C, id) == \E c \in C : c.task = id

\* C36: every Task whose stored status is Running has a live execution
\* context working on it, in particular a Task that was paused and resumed.
C36_RunningHasLiveContext ==
    \A i \in DOMAIN tasks :
        tasks[i].status = Running => HasContext(ctxs, tasks[i].id)
(***************************************************************************)
(* The limit and the contexts inside the engine                            *)
(***************************************************************************)
\* Tasks are started and the limit is changed while contexts are in flight
NextLimit ==
    \/ CreateTask(MaxEngineTasks)
    \/ \E id \in EngineIds : StartTask(id, SaveOk)
    \/ \E max \in 0..MaxLimit : SetMaxConcurrentTasks(max, SaveOk)
    \/ ContextStep

SpecLimit == Init /\ [][NextLimit]_vars

\* the execution contexts that hold a permit: they are inside the engine
InEngine(C) == {c \in C : c.pc = "engine"}

\* C37: the number of execution contexts that are inside the engine at the
\* same time never exceeds the current max_concurrent_tasks.
C37_EngineWithinLimit == Cardinality(InEngine(ctxs)) <= max_concurrent_tasks
(***************************************************************************)
(* The paused queue                                                        *)
(***************************************************************************)
\* The queue is paused and resumed beside the operations that can move a
\* task to Running
NextPaused ==
    \/ CreateTask(MaxTasks)
    \/ \E id \in Ids : StartTask(id, SaveOk)
    \/ \E id \in Ids : ResumeTask(id, SaveOk)
    \/ \E id \in Ids : CancelTask(id, SaveOk)
    \/ \E id \in Ids : RetryTask(id, SaveOk)
    \/ PauseQueue(SaveOk)
    \/ ResumeQueue(SaveOk)

SpecPaused == Init /\ [][NextPaused]_vars

\* C38: while is_queue_paused is true no Task has status Running.
C38_NoRunningWhilePaused == is_queue_paused => running_count(tasks) = 0
(***************************************************************************)
(* Deadlocks                                                               *)
(***************************************************************************)
\* the thread t waits for the thread u: u holds a guard that excludes the one
\* t is parked on, or u is a writer queued before the reader t
WaitsFor(T, t, u) ==
    /\ t # u
    /\ Blocked(T, t)
    /\ LET step == NextStep(T[t])
       IN  IF step.mode = "write"
           THEN \E mode \in {"read", "write"} : << step.lock, mode >> \in T[u].held
           ELSE \/ << step.lock, "write" >> \in T[u].held
                \/ u \in WaitingWriters(T, step.lock, t)

\* the thread t is parked on a lock it holds itself
SelfDeadlock(T, t) ==
    /\ Blocked(T, t)
    /\ \E g \in T[t].held :
          /\ g[1] = NextStep(T[t]).lock
          /\ "write" \in {g[2], NextStep(T[t]).mode}

\* the threads that the threads of S wait for
WaitedBy(T, S) == {u \in DOMAIN T : \E t \in S : WaitsFor(T, t, u)}

RECURSIVE WaitedThrough(_, _, _)
WaitedThrough(T, S, n) ==
    IF n = 0 THEN S ELSE WaitedThrough(T, S \cup WaitedBy(T, S), n - 1)

\* some threads wait for each other in a cycle
Deadlocked(T) ==
    \E t \in DOMAIN T :
        \/ SelfDeadlock(T, t)
        \/ t \in WaitedThrough(T, WaitedBy(T, {t}), Cardinality(DOMAIN T))

\* an order of the locks
LockRank ==
    [l \in {PauseMutex, TasksLock, QueueLock, MaxLock, PausedLock, SemaphoreLock} |->
        CASE l = PauseMutex -> 0
          [] l = TasksLock -> 1
          [] l = QueueLock -> 2
          [] OTHER -> 3]

\* C39: no interleaving of commands, save_state calls and execution-context
\* callbacks deadlocks: no threads ever wait for each other in a cycle, every
\* lock is taken after the locks of lower rank only (tasks before queue
\* before the others, the pause mutex before queue), and an operation that
\* has returned holds no guard.
C39_NoDeadlock ==
    /\ ~Deadlocked(threads)
    /\ \A t \in Threads :
          /\ (~Returned(threads[t]) /\ NextStep(threads[t]).kind = "lock")
                => \A g \in threads[t].held :
                      LockRank[g[1]] < LockRank[NextStep(threads[t]).lock]
          /\ Returned(threads[t]) => threads[t].held = {}

\* the main thread is parked on a write guard while a worker thread holds the
\* read guards of tasks and queue inside process_next_tasks
C39_Witness ==
    /\ Blocked(threads, MainThread)
    /\ \E t \in Workers :
          /\ threads[t].op = "spawned"
          /\ {<< TasksLock, "read" >>, << QueueLock, "read" >>} \subseteq threads[t].held
====
